---- MODULE Spec2Model ----
(***************************************************************************)
(* Reserve drain (plumbing) model: src/reserve_drain_model.py.             *)
(*                                                                         *)
(* Amounts are Python floats in $ billion.  They are modelled in fixed     *)
(* point, one unit = 0.001 $ billion, so 5.5 is 5500 and 3000.0 is         *)
(* 3000000.  The arguments the model draws are multiples of 0.1 $ billion; *)
(* the sine term of the cash path is rounded to the unit (86.603 for       *)
(* 100 * sin(pi / 3)), so that trajectories hold amounts that are not      *)
(* multiples of 0.1 and round(x, 1) in summary_table changes them.         *)
(*                                                                         *)
(* An optional Python value (int/float or None) is a sequence: None is     *)
(* <<>> and the value x is <<x>>.                                          *)
(*                                                                         *)
(* PROJECTION_MONTHS and TGA_AMPLITUDE_BN are module attributes that       *)
(* run_scenario reads when it is called; they are configuration of a run   *)
(* (variables projection_months, tga_amplitude) and the values the module  *)
(* ships with are among the values drawn.                                  *)
(***************************************************************************)
EXTENDS Integers, Sequences, FiniteSets, TLC

VARIABLES
    \* --- arguments and configuration of one run_scenario call
    qt_bn_per_month,              \* QT runoff per month (negative = QE)
    start,                        \* [reserves_bn, rrp_bn, tga_bn]
    currency_bn,                  \* currency drain per month
    other_bn,                     \* other drains per month
    rrp_near_zero,                \* BOOLEAN, the standard policy
    crisis_reversal_after_month,  \* optional int
    qe_bn_per_month,              \* optional amount
    projection_months,            \* module attribute PROJECTION_MONTHS
    tga_amplitude,                \* module attribute TGA_AMPLITUDE_BN
    \* --- locals of run_scenario
    pc,                           \* "start", "loop", "done" ("idle": no call)
    m,                            \* loop variable of the main loop
    reserves, rrp, tga_series,    \* the lists being built
    currency_cum, other_cum,      \* built after the loop
    effective_qt_log,             \* effective_qt of each executed step
    new_res_log,                  \* new_res (unclamped) of each executed step
    \* --- one months_until call
    mu_pc,                        \* "idle", "scan", "done"
    reserves_bn_list,             \* argument
    threshold_bn,                 \* argument
    mu_i,                         \* enumerate() index, 0-based
    mu_ret,                       \* optional int, the returned value
    \* --- one load_starting_conditions call
    ld_pc,                        \* "idle", "reserves", "rrp", "tga", "return",
                                  \* "done", "raised"
    df,                           \* the CSV: [TOTRESNS, RRPONTSYD, WTREGEN],
                                  \* each a list of optional floats (None = NaN)
    ld_reserves_bn, ld_rrp_bn, ld_tga_bn,   \* optional: locals once assigned
    ld_ret,                       \* optional: the returned dict
    ld_exc,                       \* the exception that ended the call, or "none"
    \* --- build_all_scenarios, callers of run_scenario, summary_table
    bs_pc,                        \* "idle"; "A", "B", "C", "D", "return", "done"
                                  \* in build_all_scenarios; "any" in a caller
                                  \* that runs the scenarios in its own order
    built,                        \* the locals A, B, C, D assigned so far
    scenarios,                    \* dict id -> trajectory, in insertion order
    start_bn,                     \* argument of summary_table
    sm_pc,                        \* "idle", "call", "loop", "done", "raised"
    sm_i,                         \* position in the list of line 207, 1-based
    rows,                         \* the list rows
    sm_exc                        \* the exception that ended summary_table

runVars == <<qt_bn_per_month, start, currency_bn, other_bn, rrp_near_zero,
             crisis_reversal_after_month, qe_bn_per_month, projection_months,
             tga_amplitude, pc, m, reserves, rrp, tga_series, currency_cum,
             other_cum, effective_qt_log, new_res_log>>

muVars == <<mu_pc, reserves_bn_list, threshold_bn, mu_i, mu_ret>>

ldVars == <<ld_pc, df, ld_reserves_bn, ld_rrp_bn, ld_tga_bn, ld_ret, ld_exc>>

pipeVars == <<bs_pc, built, scenarios, start_bn, sm_pc, sm_i, rows, sm_exc>>

vars == <<runVars, muVars, ldVars, pipeVars>>

None == <<>>

Some(x) == <<x>>

\* Element i (0-based, as Python indexes it) of a list.
At(list, i) == list[i + 1]

\* list[-1]
Last(list) == list[Len(list)]

(***************************************************************************)
(* Module constants (in 0.001 $ billion where they are amounts).           *)
(***************************************************************************)
CURRENCY_GROWTH_BN == 5500

OTHER_DRAINS_BN == 2000

QT_HAWK_BN == 95000

QT_MODERATE_BN == 40000

QT_DURATION_BN == 0

QE_CRISIS_BN == -75000

TGA_MEAN_BN == 650000

TGA_AMPLITUDE_BN == 100000

TGA_PERIOD_MONTHS == 6

THRESH_AMPLE_BN == 2500000

THRESH_CAUTION_BN == 2000000

CRISIS_TRIGGER_MONTH == 6

PROJECTION_MONTHS == 24

(***************************************************************************)
(* Bounds of the model.                                                    *)
(***************************************************************************)
\* Horizons 0..MaxH are drawn besides the shipped PROJECTION_MONTHS.
MaxH == 3

\* months_until is applied to every list of at most MaxLen amounts.
MaxLen == 3

\* Every CSV column holds at most MaxObs rows.
MaxObs == 2

(***************************************************************************)
(* tga_path_bn: TGA_MEAN_BN + TGA_AMPLITUDE_BN * sin(2 pi t / 6).          *)
(***************************************************************************)
\* a / b rounded to the nearest integer, symmetrically about 0.
RoundDiv(a, b) ==
    IF a >= 0 THEN (a + b \div 2) \div b ELSE -((-a + b \div 2) \div b)

\* 1000000 * sin(2 pi t / TGA_PERIOD_MONTHS), rounded: 0, 866025, 866025,
\* 0, -866025, -866025 over one period of six months.
SinMicro(t) ==
    LET k == t % TGA_PERIOD_MONTHS
    IN  IF k = 0 \/ k = 3 THEN 0
        ELSE IF k = 1 \/ k = 2 THEN 866025
        ELSE -866025

\* amplitude * sin(2 pi t / 6), rounded to the unit.  The amplitude is a
\* multiple of 0.1 $ billion (100 units); dividing it by 100 first keeps the
\* product within TLC's 32-bit integers.
SineTerm(amplitude, t) == RoundDiv((amplitude \div 100) * SinMicro(t), 10000)

\* The second argument is accepted and not used, as in the code.
tga_path_bn(month_index, tga_start_bn) ==
    TGA_MEAN_BN + SineTerm(tga_amplitude, month_index)

\* A cash path that also takes its step-0 value from the sine wave.
TgaSeriesAllFromDriver(start_tga, months) ==
    [i \in 1..(months + 1) |-> tga_path_bn(i - 1, start_tga)]

\* Lines 125-128: [start["tga_bn"]] followed by tga_path_bn(m) for
\* m = 1..PROJECTION_MONTHS (range() is empty when that is below 1).
TgaSeries(start_tga, months) ==
    [i \in 1..(IF months >= 0 THEN months + 1 ELSE 1) |->
        IF i = 1 THEN start_tga ELSE tga_path_bn(i - 1, start_tga)]

(***************************************************************************)
(* One pass of the main loop of run_scenario, piece by piece.              *)
(***************************************************************************)
\* The switch taking effect one month late.
EffectiveQtLate(month, qt, crisis, qe) ==
    IF crisis # None /\ qe # None /\ month > crisis[1] THEN qe[1] ELSE qt

\* The trigger step tested alone: a missing replacement rate counts as 0.
EffectiveQtTriggerAlone(month, qt, crisis, qe) ==
    IF crisis # None /\ month >= crisis[1]
    THEN IF qe # None THEN qe[1] ELSE 0
    ELSE qt

\* Lines 132-135.
EffectiveQt(month, qt, crisis, qe) ==
    IF crisis # None /\ month >= crisis[1] /\ qe # None THEN qe[1] ELSE qt

\* Lines 138-144.
DeltaRrp(month, rrp_last, near_zero) ==
    IF near_zero
    THEN IF month = 1 /\ rrp_last > 0 THEN -rrp_last ELSE 0
    ELSE 0

\* A buffer that is never written down.
RrpNextKept(rrp_last, near_zero) == rrp_last

\* Line 146.
RrpNext(rrp_last, near_zero) == IF near_zero THEN 0 ELSE rrp_last

\* The change of the cash path measured from its first entry.
DeltaTgaFromStart(series, month) == At(series, month) - At(series, 0)

\* Lines 150-152.
DeltaTga(series, month) == At(series, month) - At(series, month - 1)

\* The deficit carried over: the unclamped value of the previous step.
OldReservesUnclamped(res_list, unclamped_log) ==
    IF unclamped_log = <<>> THEN Last(res_list) ELSE Last(unclamped_log)

\* Line 155: reserves[-1], the clamped value appended by the previous step.
OldReserves(res_list, unclamped_log) == Last(res_list)

\* The drains left out of the core equation.
NewResNoDrains(old, qt_eff, d_rrp, d_tga, currency, other) ==
    old - qt_eff + d_rrp - d_tga

\* The runoff added instead of subtracted.
NewResQtAdded(old, qt_eff, d_rrp, d_tga, currency, other) ==
    old + qt_eff + d_rrp - d_tga - currency - other

\* Line 155.
NewRes(old, qt_eff, d_rrp, d_tga, currency, other) ==
    old - qt_eff + d_rrp - d_tga - currency - other

\* A deficit turned into a surplus: the absolute value.
ClampReflect(x) == IF x > 0 THEN x ELSE -x

\* No floor.
ClampNone(x) == x

\* Line 156: max(0.0, new_res).
Clamp(x) == IF x > 0 THEN x ELSE 0

\* Lines 159-160: [rate * (m + 1) for m in range(PROJECTION_MONTHS + 1)].
CumList(rate, months) ==
    [i \in 1..(IF months >= 0 THEN months + 1 ELSE 0) |-> rate * ((i - 1) + 1)]

(***************************************************************************)
(* run_scenario as a state machine: Begin (lines 123-128), Step (one pass  *)
(* of the loop of lines 130-156), Finish (lines 158-168).                  *)
(***************************************************************************)
StartReserves == {0, 200000, 3000000}

StartRrp == {0, 150000}

StartTga == {TGA_MEAN_BN, 800000}

Rates == {QT_HAWK_BN, QT_DURATION_BN, QE_CRISIS_BN}

Drains == {<<0, 0>>, <<CURRENCY_GROWTH_BN, OTHER_DRAINS_BN>>}

Horizons == (0..MaxH) \cup {PROJECTION_MONTHS}

Triggers == {None} \cup {Some(t) : t \in (0..(MaxH + 1)) \cup {CRISIS_TRIGGER_MONTH, PROJECTION_MONTHS + 1}}

Replacements == {None, Some(QE_CRISIS_BN)}

Amplitudes == {0, TGA_AMPLITUDE_BN}

\* No run_scenario call of its own: the arguments and locals of the state
\* machine Begin / Step / Finish are not in use.
RunLocalsIdle ==
    /\ qt_bn_per_month = 0
    /\ currency_bn = 0
    /\ other_bn = 0
    /\ rrp_near_zero = TRUE
    /\ crisis_reversal_after_month = None
    /\ qe_bn_per_month = None
    /\ pc = "idle"
    /\ m = 0
    /\ reserves = <<>>
    /\ rrp = <<>>
    /\ tga_series = <<>>
    /\ currency_cum = <<>>
    /\ other_cum = <<>>
    /\ effective_qt_log = <<>>
    /\ new_res_log = <<>>

RunIdle ==
    /\ qt_bn_per_month = 0
    /\ start = [reserves_bn |-> 0, rrp_bn |-> 0, tga_bn |-> 0]
    /\ currency_bn = 0
    /\ other_bn = 0
    /\ rrp_near_zero = TRUE
    /\ crisis_reversal_after_month = None
    /\ qe_bn_per_month = None
    /\ projection_months = PROJECTION_MONTHS
    /\ tga_amplitude = TGA_AMPLITUDE_BN
    /\ pc = "idle"
    /\ m = 0
    /\ reserves = <<>>
    /\ rrp = <<>>
    /\ tga_series = <<>>
    /\ currency_cum = <<>>
    /\ other_cum = <<>>
    /\ effective_qt_log = <<>>
    /\ new_res_log = <<>>

MuIdle ==
    /\ mu_pc = "idle"
    /\ reserves_bn_list = <<>>
    /\ threshold_bn = 0
    /\ mu_i = 0
    /\ mu_ret = None

RunInit ==
    /\ qt_bn_per_month \in Rates
    /\ start \in [reserves_bn : StartReserves, rrp_bn : StartRrp, tga_bn : StartTga]
    /\ \E d \in Drains : currency_bn = d[1] /\ other_bn = d[2]
    /\ rrp_near_zero \in BOOLEAN
    /\ crisis_reversal_after_month \in Triggers
    /\ qe_bn_per_month \in Replacements
    /\ projection_months \in Horizons
    /\ tga_amplitude \in Amplitudes
    /\ pc = "start"
    /\ m = 0
    /\ reserves = <<>>
    /\ rrp = <<>>
    /\ tga_series = <<>>
    /\ currency_cum = <<>>
    /\ other_cum = <<>>
    /\ effective_qt_log = <<>>
    /\ new_res_log = <<>>

PipeIdle ==
    /\ bs_pc = "idle"
    /\ built = <<>>
    /\ scenarios = <<>>
    /\ start_bn = 0
    /\ sm_pc = "idle"
    /\ sm_i = 0
    /\ rows = <<>>
    /\ sm_exc = "none"

LdIdle ==
    /\ ld_pc = "idle"
    /\ df = [TOTRESNS |-> <<>>, RRPONTSYD |-> <<>>, WTREGEN |-> <<>>]
    /\ ld_reserves_bn = None
    /\ ld_rrp_bn = None
    /\ ld_tga_bn = None
    /\ ld_ret = None
    /\ ld_exc = "none"

Init == RunInit /\ MuIdle /\ LdIdle /\ PipeIdle

runArgs == <<qt_bn_per_month, start, currency_bn, other_bn, rrp_near_zero,
             crisis_reversal_after_month, qe_bn_per_month, projection_months,
             tga_amplitude>>

Begin ==
    /\ pc = "start"
    /\ reserves' = <<start.reserves_bn>>
    /\ rrp' = <<start.rrp_bn>>
    /\ tga_series' = TgaSeries(start.tga_bn, projection_months)
    /\ m' = 1
    /\ pc' = "loop"
    /\ UNCHANGED <<runArgs, currency_cum, other_cum, effective_qt_log, new_res_log, muVars, ldVars, pipeVars>>

Step ==
    /\ pc = "loop"
    /\ m <= projection_months
    /\ LET effective_qt == EffectiveQt(m, qt_bn_per_month,
                                       crisis_reversal_after_month, qe_bn_per_month)
           delta_rrp == DeltaRrp(m, Last(rrp), rrp_near_zero)
           rrp_next == RrpNext(Last(rrp), rrp_near_zero)
           delta_tga == DeltaTga(tga_series, m)
           new_res == NewRes(OldReserves(reserves, new_res_log), effective_qt,
                             delta_rrp, delta_tga,
                             currency_bn, other_bn)
       IN  /\ rrp' = Append(rrp, rrp_next)
           /\ reserves' = Append(reserves, Clamp(new_res))
           /\ effective_qt_log' = Append(effective_qt_log, effective_qt)
           /\ new_res_log' = Append(new_res_log, new_res)
    /\ m' = m + 1
    /\ UNCHANGED <<runArgs, pc, tga_series, currency_cum, other_cum, muVars, ldVars, pipeVars>>

Finish ==
    /\ pc = "loop"
    /\ m > projection_months
    /\ currency_cum' = CumList(currency_bn, projection_months)
    /\ other_cum' = CumList(other_bn, projection_months)
    /\ pc' = "done"
    /\ UNCHANGED <<runArgs, m, reserves, rrp, tga_series, effective_qt_log, new_res_log, muVars, ldVars, pipeVars>>

Next == Begin \/ Step \/ Finish

Spec == Init /\ [][Next]_vars

(***************************************************************************)
(* months_until (lines 196-201) as a state machine: MuStep is one pass of  *)
(* the for loop, MuExhausted the return None after it.                     *)
(***************************************************************************)
\* A strict comparison.
CrossesStrict(r, threshold) == r < threshold

\* The comparison turned round: at or above the threshold.
CrossesReversed(r, threshold) == r >= threshold

\* Line 199: r <= threshold_bn.
Crosses(r, threshold) == r <= threshold

\* months_until only compares: its lists and thresholds are in the unit of
\* the examples ($ billion).
Amounts == {0, 50, 100}

Thresholds == {-1, 0, 50, 55, 100}

\* [100, 90, 80, ..., 0]
Decreasing == [i \in 1..11 |-> 100 - 10 * (i - 1)]

Lists == UNION {[1..n -> Amounts] : n \in 0..MaxLen} \cup {Decreasing}

MuInit ==
    /\ mu_pc = "scan"
    /\ reserves_bn_list \in Lists
    /\ threshold_bn \in Thresholds
    /\ mu_i = 0
    /\ mu_ret = None

MuStep ==
    /\ mu_pc = "scan"
    /\ mu_i < Len(reserves_bn_list)
    /\ IF Crosses(At(reserves_bn_list, mu_i), threshold_bn)
       THEN mu_ret' = Some(mu_i) /\ mu_pc' = "done" /\ UNCHANGED mu_i
       ELSE mu_i' = mu_i + 1 /\ UNCHANGED <<mu_ret, mu_pc>>
    /\ UNCHANGED <<reserves_bn_list, threshold_bn, runVars, ldVars, pipeVars>>

MuExhausted ==
    /\ mu_pc = "scan"
    /\ mu_i >= Len(reserves_bn_list)
    /\ mu_ret' = None
    /\ mu_pc' = "done"
    /\ UNCHANGED <<reserves_bn_list, threshold_bn, mu_i, runVars, ldVars, pipeVars>>

InitMonths == RunIdle /\ MuInit /\ LdIdle /\ PipeIdle

NextMonths == MuStep \/ MuExhausted

SpecMonths == InitMonths /\ [][NextMonths]_vars

(***************************************************************************)
(* load_starting_conditions (lines 51-81) as a state machine: one action   *)
(* per column (LoadReserves, LoadRrp, LoadTga) and LoadReturn.  A CSV      *)
(* float x is the integer 1000 * x, NaN is None.                           *)
(***************************************************************************)
\* Series.dropna()
DropNa(column) == SelectSeq(column, LAMBDA v : v # None)

\* No restriction to the monthly observations.
ReservesSourceUnfiltered(res_series) == res_series

\* Lines 62-64: res_series[res_series > 100], or res_series when that is empty.
ReservesSource(res_series) ==
    LET monthly_res == SelectSeq(res_series, LAMBDA v : v[1] > 100000)
    IN  IF monthly_res = <<>> THEN res_series ELSE monthly_res

\* An empty series read as 0.0.
ILocLastOrZero(series) ==
    IF series = <<>>
    THEN [exc |-> "none", val |-> 0]
    ELSE [exc |-> "none", val |-> Last(series)[1]]

\* series.iloc[-1]: pandas raises IndexError on an empty series.
ILocLast(series) ==
    IF series = <<>>
    THEN [exc |-> "IndexError", val |-> 0]
    ELSE [exc |-> "none", val |-> Last(series)[1]]

\* Line 70: rrp_last / 1000.0 if rrp_last > 1000 else rrp_last.
RrpToBn(rrp_last) ==
    IF rrp_last > 1000000 THEN RoundDiv(rrp_last, 1000) ELSE rrp_last

\* Line 75: tga_last / 1000.0 if tga_last > 100 else tga_last.
TgaToBn(tga_last) ==
    IF tga_last > 100000 THEN RoundDiv(tga_last, 1000) ELSE tga_last

ReservesObs == {None, Some(50000), Some(2000000), Some(3000000)}

RrpObs == {None, Some(150000), Some(250000000)}

TgaObs == {None, Some(50000), Some(800000000)}

Columns(obs) == UNION {[1..n -> obs] : n \in 0..MaxObs}

LdInit ==
    /\ ld_pc = "reserves"
    /\ df \in [TOTRESNS : Columns(ReservesObs), RRPONTSYD : Columns(RrpObs),
               WTREGEN : Columns(TgaObs)]
    /\ ld_reserves_bn = None
    /\ ld_rrp_bn = None
    /\ ld_tga_bn = None
    /\ ld_ret = None
    /\ ld_exc = "none"

LoadReserves ==
    /\ ld_pc = "reserves"
    /\ LET res_series == DropNa(df.TOTRESNS)
           got == ILocLast(ReservesSource(res_series))
       IN  IF got.exc # "none"
           THEN ld_exc' = got.exc /\ ld_pc' = "raised" /\ UNCHANGED ld_reserves_bn
           ELSE ld_reserves_bn' = Some(got.val) /\ ld_pc' = "rrp" /\ UNCHANGED ld_exc
    /\ UNCHANGED <<df, ld_rrp_bn, ld_tga_bn, ld_ret, runVars, muVars, pipeVars>>

LoadRrp ==
    /\ ld_pc = "rrp"
    /\ LET got == ILocLast(DropNa(df.RRPONTSYD))
       IN  IF got.exc # "none"
           THEN ld_exc' = got.exc /\ ld_pc' = "raised" /\ UNCHANGED ld_rrp_bn
           ELSE ld_rrp_bn' = Some(RrpToBn(got.val)) /\ ld_pc' = "tga" /\ UNCHANGED ld_exc
    /\ UNCHANGED <<df, ld_reserves_bn, ld_tga_bn, ld_ret, runVars, muVars, pipeVars>>

LoadTga ==
    /\ ld_pc = "tga"
    /\ LET got == ILocLast(DropNa(df.WTREGEN))
       IN  IF got.exc # "none"
           THEN ld_exc' = got.exc /\ ld_pc' = "raised" /\ UNCHANGED ld_tga_bn
           ELSE ld_tga_bn' = Some(TgaToBn(got.val)) /\ ld_pc' = "return" /\ UNCHANGED ld_exc
    /\ UNCHANGED <<df, ld_reserves_bn, ld_rrp_bn, ld_ret, runVars, muVars, pipeVars>>

LoadReturn ==
    /\ ld_pc = "return"
    /\ ld_ret' = Some([reserves_bn |-> ld_reserves_bn[1], rrp_bn |-> ld_rrp_bn[1],
                       tga_bn |-> ld_tga_bn[1]])
    /\ ld_pc' = "done"
    /\ UNCHANGED <<df, ld_reserves_bn, ld_rrp_bn, ld_tga_bn, ld_exc, runVars, muVars, pipeVars>>

InitLoad == RunIdle /\ MuIdle /\ LdInit /\ PipeIdle

NextLoad == LoadReserves \/ LoadRrp \/ LoadTga \/ LoadReturn

SpecLoad == InitLoad /\ [][NextLoad]_vars

(***************************************************************************)
(* Properties of load_starting_conditions.                                 *)
(***************************************************************************)
\* Some required column has no non-missing observation.
SomeColumnEmpty ==
    \/ DropNa(df.TOTRESNS) = <<>>
    \/ DropNa(df.RRPONTSYD) = <<>>
    \/ DropNa(df.WTREGEN) = <<>>

LdEnded == ld_pc \in {"done", "raised"}

C19_ReservesFromMonthlyScale ==
    ld_reserves_bn # None =>
        LET col == df.TOTRESNS
            present == {i \in 1..Len(col) : col[i] # None}
            large == {i \in present : col[i][1] > 100000}
            from == IF large # {} THEN large ELSE present
            latest == CHOOSE i \in from : \A j \in from : j <= i
        IN  /\ from # {}
            /\ ld_reserves_bn = col[latest]

\* The call has returned the observation 3000 although a later non-missing
\* observation 50 follows it.
C19_Witness ==
    /\ ld_pc = "done"
    /\ df.TOTRESNS = <<Some(3000000), Some(50000)>>
    /\ ld_ret # None
    /\ ld_ret[1].reserves_bn = 3000000


(***************************************************************************)
(* run_scenario and months_until as functions of their arguments, for the  *)
(* callers below: the same pieces as Begin / Step / Finish and as MuStep / *)
(* MuExhausted, composed over the whole loop.                              *)
(***************************************************************************)
RECURSIVE RunLoop(_, _, _)
\* Lines 130-156 from pass month on; lists holds reserves, rrp and the
\* unclamped new_res of the passes made so far.
RunLoop(args, lists, month) ==
    IF month > projection_months
    THEN lists
    ELSE LET effective_qt == EffectiveQt(month, args.qt, args.crisis, args.qe)
             delta_rrp == DeltaRrp(month, Last(lists.rrp), args.near_zero)
             delta_tga == DeltaTga(args.tga, month)
             new_res == NewRes(OldReserves(lists.reserves, lists.unclamped),
                               effective_qt, delta_rrp, delta_tga,
                               args.currency, args.other)
         IN  RunLoop(args,
                     [reserves |-> Append(lists.reserves, Clamp(new_res)),
                      rrp |-> Append(lists.rrp, RrpNext(Last(lists.rrp), args.near_zero)),
                      unclamped |-> Append(lists.unclamped, new_res)],
                     month + 1)

\* Lines 123-168: the dict run_scenario returns.
RunScenario(qt, st, currency, other, near_zero, crisis, qe) ==
    LET tga == TgaSeries(st.tga_bn, projection_months)
        lists == RunLoop([qt |-> qt, currency |-> currency, other |-> other,
                          near_zero |-> near_zero, crisis |-> crisis, qe |-> qe,
                          tga |-> tga],
                         [reserves |-> <<st.reserves_bn>>, rrp |-> <<st.rrp_bn>>,
                          unclamped |-> <<>>],
                         1)
    IN  [reserves_bn |-> lists.reserves,
         rrp_bn |-> lists.rrp,
         tga_bn |-> tga,
         currency_cum_bn |-> CumList(currency, projection_months),
         other_cum_bn |-> CumList(other, projection_months)]

\* A run that writes the drawn-down buffer back into the caller's dict.
StartAfterRunDrained(st) == [st EXCEPT !.rrp_bn = 0]

\* Lines 123-125 only read start: the caller's dict is as it was.
StartAfterRun(st) == st

RECURSIVE MonthsUntilFrom(_, _, _)
MonthsUntilFrom(list, threshold, i) ==
    IF i >= Len(list) THEN None
    ELSE IF Crosses(At(list, i), threshold) THEN Some(i)
    ELSE MonthsUntilFrom(list, threshold, i + 1)

\* Lines 196-201.
months_until(list, threshold) == MonthsUntilFrom(list, threshold, 0)

(***************************************************************************)
(* A Python dict: the list of its <<key, value>> items in insertion order. *)
(***************************************************************************)
Keys(dict) == [i \in 1..Len(dict) |-> dict[i][1]]

HasKey(dict, key) == \E i \in 1..Len(dict) : dict[i][1] = key

\* dict[key], for a key the dict holds.
Lookup(dict, key) == dict[CHOOSE i \in 1..Len(dict) : dict[i][1] = key][2]

\* dict[key] = value: a held key keeps its place, a new one goes last.
DictSet(dict, key, value) ==
    IF HasKey(dict, key)
    THEN [i \in 1..Len(dict) |-> IF dict[i][1] = key THEN <<key, value>> ELSE dict[i]]
    ELSE Append(dict, <<key, value>>)

(***************************************************************************)
(* build_all_scenarios (lines 171-193): BuildScenario is one of the four   *)
(* run_scenario calls, in the order A, B, C, D; BuildReturn is line 193.   *)
(***************************************************************************)
ScenarioIds == <<"A", "B", "C", "D">>

\* Scenario B run without the currency drain.
ScenarioArgsDrainDropped(id) ==
    [qt |-> IF id = "B" THEN QT_MODERATE_BN
            ELSE IF id = "C" THEN QT_DURATION_BN ELSE QT_HAWK_BN,
     currency |-> IF id = "B" THEN 0 ELSE CURRENCY_GROWTH_BN,
     other |-> OTHER_DRAINS_BN,
     near_zero |-> TRUE,
     crisis |-> IF id = "D" THEN Some(CRISIS_TRIGGER_MONTH) ELSE None,
     qe |-> IF id = "D" THEN Some(QE_CRISIS_BN) ELSE None]

\* The arguments of the four calls, lines 174-191.
ScenarioArgs(id) ==
    [qt |-> IF id = "B" THEN QT_MODERATE_BN
            ELSE IF id = "C" THEN QT_DURATION_BN ELSE QT_HAWK_BN,
     currency |-> CURRENCY_GROWTH_BN,
     other |-> OTHER_DRAINS_BN,
     near_zero |-> TRUE,
     crisis |-> IF id = "D" THEN Some(CRISIS_TRIGGER_MONTH) ELSE None,
     qe |-> IF id = "D" THEN Some(QE_CRISIS_BN) ELSE None]

\* run_scenario called with the arguments of scenario id on the dict st.
RunCatalogued(id, st) ==
    LET a == ScenarioArgs(id)
    IN  RunScenario(a.qt, st, a.currency, a.other, a.near_zero, a.crisis, a.qe)

StartStates == [reserves_bn : StartReserves, rrp_bn : StartRrp, tga_bn : StartTga]

\* Horizons on both sides of the checkpoints 12 and 24 of summary_table.
LongHorizons == (0..MaxH) \cup {10, 11, 12, PROJECTION_MONTHS, PROJECTION_MONTHS + 1}

SummaryIdle ==
    /\ start_bn = 0
    /\ sm_pc = "idle"
    /\ sm_i = 0
    /\ rows = <<>>
    /\ sm_exc = "none"

BuildInit ==
    /\ start \in StartStates
    /\ projection_months \in LongHorizons
    /\ tga_amplitude \in Amplitudes
    /\ bs_pc = "A"
    /\ built = <<>>
    /\ scenarios = <<>>
    /\ SummaryIdle

runLocals == <<qt_bn_per_month, currency_bn, other_bn, rrp_near_zero,
               crisis_reversal_after_month, qe_bn_per_month, pc, m, reserves,
               rrp, tga_series, currency_cum, other_cum, effective_qt_log,
               new_res_log>>

config == <<projection_months, tga_amplitude>>

summaryVars == <<start_bn, sm_pc, sm_i, rows, sm_exc>>

BuildScenario ==
    /\ bs_pc \in {"A", "B", "C", "D"}
    /\ built' = DictSet(built, bs_pc, RunCatalogued(bs_pc, start))
    /\ start' = StartAfterRun(start)
    /\ bs_pc' = IF bs_pc = "A" THEN "B"
                ELSE IF bs_pc = "B" THEN "C"
                ELSE IF bs_pc = "C" THEN "D" ELSE "return"
    /\ UNCHANGED <<scenarios, summaryVars, config, runLocals, muVars, ldVars>>

BuildReturn ==
    /\ bs_pc = "return"
    /\ scenarios' = <<<<"A", Lookup(built, "A")>>, <<"B", Lookup(built, "B")>>,
                      <<"C", Lookup(built, "C")>>, <<"D", Lookup(built, "D")>>>>
    /\ bs_pc' = "done"
    /\ UNCHANGED <<built, start, summaryVars, config, runLocals, muVars, ldVars>>

InitBuild == RunLocalsIdle /\ MuIdle /\ LdIdle /\ BuildInit

NextBuild == BuildScenario \/ BuildReturn

SpecBuild == InitBuild /\ [][NextBuild]_vars

(***************************************************************************)
(* A caller that runs the catalogued scenarios one at a time in an order   *)
(* of its own, keeping each returned trajectory under its id.              *)
(***************************************************************************)
RunsInit ==
    /\ start \in StartStates
    /\ projection_months \in Horizons
    /\ tga_amplitude \in Amplitudes
    /\ bs_pc = "any"
    /\ built = <<>>
    /\ scenarios = <<>>
    /\ SummaryIdle

RunAny ==
    /\ bs_pc = "any"
    /\ \E id \in {"A", "B", "C", "D"} :
          /\ scenarios' = DictSet(scenarios, id, RunCatalogued(id, start))
          /\ start' = StartAfterRun(start)
    /\ UNCHANGED <<bs_pc, built, summaryVars, config, runLocals, muVars, ldVars>>

InitRuns == RunLocalsIdle /\ MuIdle /\ LdIdle /\ RunsInit

NextRuns == RunAny

SpecRuns == InitRuns /\ [][NextRuns]_vars


(***************************************************************************)
(* summary_table (lines 204-223) as a state machine: SummaryRow is one     *)
(* pass of the loop over the list of line 207, SummaryReturn line 223.     *)
(* A cell of a row is a number or the string of the dash.                  *)
(***************************************************************************)
Num(x) == [kind |-> "num", val |-> x]

\* The string of one em dash (U+2014, written "--" here) that the table
\* shows for a value that is None.
Dash == [kind |-> "str", val |-> "--"]

\* round(x, 1): to the nearest multiple of 0.1 (100 units), a tie to the
\* even one.
Round1(x) ==
    LET q == x \div 100
        r == x % 100
    IN  IF r < 50 THEN q * 100
        ELSE IF r > 50 THEN (q + 1) * 100
        ELSE IF q % 2 = 0 THEN q * 100 ELSE (q + 1) * 100

\* list[i]: IndexError when the list has no such entry.
Index(list, i) ==
    IF i < Len(list)
    THEN [exc |-> "none", val |-> Some(At(list, i))]
    ELSE [exc |-> "IndexError", val |-> None]

\* The guard off by one: len(r) >= i.
CheckpointGuardLoose(r, i) ==
    IF Len(r) >= i THEN Index(r, i) ELSE [exc |-> "none", val |-> None]

\* Lines 211-212: r[i] if len(r) > i else None.
Checkpoint(r, i) ==
    IF Len(r) > i THEN Index(r, i) ELSE [exc |-> "none", val |-> None]

\* Line 214: start_bn - r[24] if len(r) > 24 else None.
TotalReduction(st_bn, r) ==
    IF Len(r) > 24
    THEN LET got == Index(r, 24)
         IN  IF got.exc # "none" THEN got
             ELSE [exc |-> "none", val |-> Some(st_bn - got.val[1])]
    ELSE [exc |-> "none", val |-> None]

\* A test of the value's truth instead of "is not None": 0 shows as the dash.
CrossingCellTruthy(month) ==
    IF month # None /\ month[1] # 0 THEN Num(month[1]) ELSE Dash

\* Lines 217-218: m if m is not None else the dash.
CrossingCell(month) == IF month # None THEN Num(month[1]) ELSE Dash

\* Lines 219-221: round(x, 1) if x is not None else the dash.
AmountCell(x) == IF x # None THEN Num(Round1(x[1])) ELSE Dash

\* The rows in the order the dict iterates.
SummaryNameInDictOrder(dict, i) == dict[i][1]

\* Line 207: the list the loop goes through.
SummaryOrder ==
    <<<<"A", "Warsh Hawk">>, <<"B", "Moderate">>, <<"C", "Duration Shift">>,
      <<"D", "Crisis Reversal">>>>

\* The scenario id of pass i of the loop.
SummaryName(dict, i) == SummaryOrder[i][1]

\* The display label of a scenario id.
LabelOf(name) ==
    SummaryOrder[CHOOSE j \in 1..Len(SummaryOrder) : SummaryOrder[j][1] = name][2]

Permutations4 ==
    {p \in [1..4 -> 1..4] : \A i, j \in 1..4 : p[i] = p[j] => i = j}

\* The dict build_all_scenarios returns for st, its items inserted in the
\* order order.
DictInOrder(st, order) ==
    [i \in 1..4 |-> <<ScenarioIds[order[i]], RunCatalogued(ScenarioIds[order[i]], st)>>]

SummaryInit ==
    /\ start \in StartStates
    /\ projection_months \in LongHorizons
    /\ tga_amplitude \in Amplitudes
    /\ bs_pc = "idle"
    /\ built = <<>>
    /\ scenarios = <<>>
    /\ start_bn = 0
    /\ sm_pc = "call"
    /\ sm_i = 0
    /\ rows = <<>>
    /\ sm_exc = "none"

\* Line 204 as main() calls it (lines 136-140): scenarios is the dict of the
\* four trajectories built from start, whatever the order of its items, and
\* start_bn is start["reserves_bn"]; line 206.
SummaryEnter ==
    /\ sm_pc = "call"
    /\ \E order \in Permutations4 : scenarios' = DictInOrder(start, order)
    /\ start_bn' = start.reserves_bn
    /\ rows' = <<>>
    /\ sm_i' = 1
    /\ sm_pc' = "loop"
    /\ UNCHANGED <<bs_pc, built, sm_exc, start, config, runLocals, muVars, ldVars>>

SummaryRow ==
    /\ sm_pc = "loop"
    /\ sm_i <= Len(SummaryOrder)
    /\ LET name == SummaryName(scenarios, sm_i)
           r == Lookup(scenarios, name).reserves_bn
           m_25 == months_until(r, THRESH_AMPLE_BN)
           m_20 == months_until(r, THRESH_CAUTION_BN)
           r_12 == Checkpoint(r, 12)
           r_24 == Checkpoint(r, 24)
           total == TotalReduction(start_bn, r)
           raised == {x.exc : x \in {r_12, r_24, total}} \ {"none"}
       IN  IF raised # {}
           THEN /\ sm_exc' = CHOOSE e \in raised : TRUE
                /\ sm_pc' = "raised"
                /\ UNCHANGED <<rows, sm_i>>
           ELSE /\ rows' = Append(rows,
                               [Scenario |-> LabelOf(name),
                                m_25 |-> CrossingCell(m_25),
                                m_20 |-> CrossingCell(m_20),
                                r_12 |-> AmountCell(r_12.val),
                                r_24 |-> AmountCell(r_24.val),
                                total |-> AmountCell(total.val)])
                /\ sm_i' = sm_i + 1
                /\ UNCHANGED <<sm_pc, sm_exc>>
    /\ UNCHANGED <<bs_pc, built, scenarios, start_bn, start, config, runLocals,
                   muVars, ldVars>>

SummaryReturn ==
    /\ sm_pc = "loop"
    /\ sm_i > Len(SummaryOrder)
    /\ sm_pc' = "done"
    /\ UNCHANGED <<bs_pc, built, scenarios, start_bn, sm_i, rows, sm_exc, start,
                   config, runLocals, muVars, ldVars>>

InitSummary == RunLocalsIdle /\ MuIdle /\ LdIdle /\ SummaryInit

NextSummary == SummaryEnter \/ SummaryRow \/ SummaryReturn

SpecSummary == InitSummary /\ [][NextSummary]_vars


(***************************************************************************)
(* The functions above agree with the state machines they compose.         *)
(***************************************************************************)
\* What Begin / Step / Finish return is what RunScenario gives for the same
\* arguments.
RunScenarioAgrees ==
    pc = "done" =>
        RunScenario(qt_bn_per_month, start, currency_bn, other_bn, rrp_near_zero,
                    crisis_reversal_after_month, qe_bn_per_month)
        = [reserves_bn |-> reserves, rrp_bn |-> rrp, tga_bn |-> tga_series,
           currency_cum_bn |-> currency_cum, other_cum_bn |-> other_cum]

\* What MuStep / MuExhausted return is what months_until gives.
MonthsUntilAgrees ==
    mu_pc = "done" => mu_ret = months_until(reserves_bn_list, threshold_bn)

(***************************************************************************)
(* Properties of build_all_scenarios and of runs in any order.             *)
(***************************************************************************)
\* The trajectory stored under id in the dict scenarios.
Traj(id) == Lookup(scenarios, id)

\* C15: build_all_scenarios returns exactly one trajectory per catalogue
\* entry (ids A, B, C, D), all of the same horizon, from the same
\* StartingState and with the same drains, so that cashBalance is identical
\* across the four at every index 0..H.
C15_FourRunsOneStart ==
    bs_pc = "done" =>
        /\ Keys(scenarios) = <<"A", "B", "C", "D">>
        /\ \A id \in {"A", "B", "C", "D"} :
              /\ Len(Traj(id).reserves_bn) = projection_months + 1
              /\ Len(Traj(id).rrp_bn) = projection_months + 1
              /\ Len(Traj(id).tga_bn) = projection_months + 1
              /\ At(Traj(id).reserves_bn, 0) = start.reserves_bn
              /\ At(Traj(id).rrp_bn, 0) = start.rrp_bn
              /\ At(Traj(id).tga_bn, 0) = start.tga_bn
              /\ \A i \in 0..projection_months :
                    At(Traj(id).tga_bn, i) = At(Traj("A").tga_bn, i)
              /\ Traj(id).currency_cum_bn = Traj("A").currency_cum_bn
              /\ Traj(id).other_cum_bn = Traj("A").other_cum_bn
              /\ \A k \in 1..projection_months :
                    At(Traj(id).reserves_bn, k) > 0 =>
                        At(Traj(id).reserves_bn, k - 1) - At(Traj(id).reserves_bn, k)
                        - (At(Traj(id).tga_bn, k) - At(Traj(id).tga_bn, k - 1))
                        - (IF k = 1 THEN start.rrp_bn ELSE 0)
                        - (IF id = "D" /\ k >= CRISIS_TRIGGER_MONTH THEN QE_CRISIS_BN
                           ELSE IF id = "B" THEN QT_MODERATE_BN
                           ELSE IF id = "C" THEN QT_DURATION_BN ELSE QT_HAWK_BN)
                        = CURRENCY_GROWTH_BN + OTHER_DRAINS_BN

\* The four 24-step trajectories from (3000, 150, 800) have been returned,
\* with a moving cash path, and A and B differ.
C15_Witness ==
    /\ bs_pc = "done"
    /\ projection_months = PROJECTION_MONTHS
    /\ tga_amplitude = TGA_AMPLITUDE_BN
    /\ start = [reserves_bn |-> 3000000, rrp_bn |-> 150000, tga_bn |-> 800000]
    /\ Len(scenarios) = 4
    /\ Traj("A").reserves_bn # Traj("B").reserves_bn
    /\ At(Traj("D").tga_bn, 1) # At(Traj("D").tga_bn, 0)

C17_CrisisSameAsHawkThroughMonth6 ==
    (bs_pc = "done" /\ projection_months >= CRISIS_TRIGGER_MONTH) =>
        \A i \in 0..CRISIS_TRIGGER_MONTH :
            At(Traj("D").reserves_bn, i) = At(Traj("A").reserves_bn, i)

(***************************************************************************)
(* Properties of summary_table.                                            *)
(***************************************************************************)
\* The reserves list of the scenario that row j of the table is about.
RowReserves(j) == Traj(ScenarioIds[j]).reserves_bn

\* Cells a and b show the same thing: both the dash, or the same number.
SameCell(a, b) == a.kind = b.kind /\ a.val = b.val

\* The first index at which list is at or below threshold, as a cell.
FirstCrossingCell(list, threshold) ==
    LET hits == {i \in 0..(Len(list) - 1) : At(list, i) <= threshold}
    IN  IF hits = {} THEN Dash
        ELSE Num(CHOOSE i \in hits : \A j \in hits : i <= j)

\* C11: when the trajectory is shorter than a checkpoint, summary_table
\* reports that checkpoint's reserve level as the dash and completes
\* normally, reading no index out of range; when the trajectory reaches the
\* checkpoint it reports the reserves at index 12 and at index 24 (rounded
\* to one decimal place, as every amount of the table is).
C11_CheckpointGuard ==
    /\ sm_exc = "none"
    /\ sm_pc # "raised"
    /\ \A j \in 1..Len(rows) :
          /\ SameCell(rows[j].r_12,
                      IF projection_months >= 12
                      THEN Num(Round1(At(RowReserves(j), 12))) ELSE Dash)
          /\ SameCell(rows[j].r_24,
                      IF projection_months >= 24
                      THEN Num(Round1(At(RowReserves(j), 24))) ELSE Dash)

\* The table of a 12-step run is complete: the level at 12 is a number,
\* here one that the rounding changed, and the level at 24 is the dash.
C11_Witness ==
    /\ sm_pc = "done"
    /\ projection_months = 12
    /\ Len(rows) = 4
    /\ rows[4].r_12.kind = "num"
    /\ rows[4].r_12.val # At(RowReserves(4), 12)
    /\ rows[4].r_24.kind = "str"

\* C12: the total reduction of every record equals startingReserves -
\* reserves[H], reserves[H] being the last entry of the scenario's reserves
\* (as an amount of the table, rounded to one decimal place).
C12_TotalReductionToHorizon ==
    \A j \in 1..Len(rows) :
        SameCell(rows[j].total,
                 Num(Round1(start_bn - At(RowReserves(j), projection_months))))

C14_CatalogueOrder ==
    /\ sm_pc = "done" => Len(rows) = 4
    /\ Len(rows) <= 4
    /\ \A j \in 1..Len(rows) :
          /\ rows[j].Scenario
                = <<"Warsh Hawk", "Moderate", "Duration Shift", "Crisis Reversal">>[j]
          /\ SameCell(rows[j].m_25,
                      FirstCrossingCell(RowReserves(j), THRESH_AMPLE_BN))
          /\ SameCell(rows[j].m_20,
                      FirstCrossingCell(RowReserves(j), THRESH_CAUTION_BN))
          /\ projection_months >= 24 =>
                /\ SameCell(rows[j].r_12, Num(Round1(At(RowReserves(j), 12))))
                /\ SameCell(rows[j].r_24, Num(Round1(At(RowReserves(j), 24))))
                /\ SameCell(rows[j].total,
                            Num(Round1(start_bn - At(RowReserves(j), 24))))

\* The table is complete for a dict given in the order D, C, B, A whose
\* trajectories differ.
C14_Witness ==
    /\ sm_pc = "done"
    /\ Keys(scenarios) = <<"D", "C", "B", "A">>
    /\ projection_months = PROJECTION_MONTHS
    /\ Len(rows) = 4
    /\ rows[1].Scenario = "Warsh Hawk"
    /\ ~SameCell(rows[1].r_24, rows[4].r_24)
    /\ ~SameCell(rows[1].r_24, rows[2].r_24)


(***************************************************************************)
(* The recurrence re-run at one constant rate: the loop of run_scenario    *)
(* (lines 130-156) continued over the months month..last from the lists    *)
(* built so far, with effective_qt fixed to rate.                          *)
(***************************************************************************)
RECURSIVE ContinueAt(_, _, _, _)
ContinueAt(rate, lists, month, last) ==
    IF month > last
    THEN lists
    ELSE ContinueAt(
            rate,
            [reserves |->
                Append(lists.reserves,
                       Clamp(NewRes(Last(lists.reserves), rate,
                                    DeltaRrp(month, Last(lists.rrp), rrp_near_zero),
                                    DeltaTga(tga_series, month),
                                    currency_bn, other_bn))),
             rrp |-> Append(lists.rrp, RrpNext(Last(lists.rrp), rrp_near_zero))],
            month + 1, last)

\* The regime switch of the data model: both a trigger step and a
\* replacement rate are given.
SwitchSet == crisis_reversal_after_month # None /\ qe_bn_per_month # None

(***************************************************************************)
(* Properties of run_scenario.                                             *)
(***************************************************************************)

C2_ReservesNonNegative ==
    \A i \in 1..Len(reserves) : reserves[i] >= 0

\* A step whose unclamped value was negative has been floored to 0.
C2_Witness ==
    \E k \in 1..Len(new_res_log) : new_res_log[k] < 0 /\ At(reserves, k) = 0

\* C3: in a returned trajectory cumulativeCurrencyDrain[i] = currencyDrain * i
\* and cumulativeOtherDrain[i] = otherDrain * i for every i in 0..H.
C3_CumulativeFromZero ==
    pc = "done" =>
        \A i \in 0..projection_months :
            /\ At(currency_cum, i) = currency_bn * i
            /\ At(other_cum, i) = other_bn * i

\* C4: with a regime switch (T, rate') the trajectory equals the no-switch
\* trajectory at constant rate at every index below T, equals the recurrence
\* continued at constant rate' from the state at index T-1 at every index
\* from T to H, and the first step that uses rate' is step T.
C4_RegimeSwitch ==
    ( /\ pc = "done"
      /\ SwitchSet
      /\ crisis_reversal_after_month[1] \in 1..projection_months )
    => LET T == crisis_reversal_after_month[1]
           H == projection_months
           noSwitch == ContinueAt(qt_bn_per_month,
                                  [reserves |-> <<start.reserves_bn>>,
                                   rrp |-> <<start.rrp_bn>>], 1, H)
           continued == ContinueAt(qe_bn_per_month[1],
                                   [reserves |-> SubSeq(reserves, 1, T),
                                    rrp |-> SubSeq(rrp, 1, T)], T, H)
       IN  /\ \A i \in 0..(T - 1) :
                 /\ At(reserves, i) = At(noSwitch.reserves, i)
                 /\ At(rrp, i) = At(noSwitch.rrp, i)
           /\ \A i \in T..H :
                 /\ At(reserves, i) = At(continued.reserves, i)
                 /\ At(rrp, i) = At(continued.rrp, i)
           /\ \A k \in 1..H :
                 effective_qt_log[k] = IF k >= T THEN qe_bn_per_month[1]
                                       ELSE qt_bn_per_month

\* A run that switched from 95 to -75 at step 2 of 3 has returned, and its
\* reserves differ from the start by more than the floor would explain.
C4_Witness ==
    /\ pc = "done"
    /\ projection_months = 3
    /\ crisis_reversal_after_month = Some(2)
    /\ qe_bn_per_month = Some(QE_CRISIS_BN)
    /\ qt_bn_per_month = QT_HAWK_BN
    /\ effective_qt_log = <<QT_HAWK_BN, QE_CRISIS_BN, QE_CRISIS_BN>>
    /\ At(reserves, 2) > At(reserves, 1)

\* C5: under the standard policy auxiliaryBuffer[0] is the starting buffer,
\* auxiliaryBuffer[i] = 0 for every i >= 1, and the sequence is
\* non-increasing.
C5_BufferDrawnDown ==
    (rrp_near_zero /\ Len(rrp) >= 1)
    => /\ At(rrp, 0) = start.rrp_bn
       /\ \A i \in 1..(Len(rrp) - 1) :
             At(rrp, i) = 0 /\ At(rrp, i) <= At(rrp, i - 1)

\* A standard-policy run that started with a positive buffer has returned.
C5_Witness ==
    /\ pc = "done"
    /\ rrp_near_zero
    /\ start.rrp_bn > 0
    /\ projection_months >= 2
    /\ At(rrp, 0) > 0
    /\ At(rrp, projection_months) = 0

\* C6: at step 1 under the standard policy the unclamped reserves[1] of a
\* run with starting buffer a > 0 is exactly a higher than the unclamped
\* reserves[1] of the same run with starting buffer 0.
C6_DrawdownAddsToReserves ==
    (rrp_near_zero /\ start.rrp_bn > 0 /\ Len(new_res_log) >= 1)
    => new_res_log[1] =
          NewRes(start.reserves_bn, effective_qt_log[1],
                 DeltaRrp(1, 0, rrp_near_zero), DeltaTga(tga_series, 1),
                 currency_bn, other_bn)
          + start.rrp_bn

\* C8: with runoffRate > 0, no regime switch, a constant cash path and both
\* drains 0, reserves[k] <= reserves[k-1] for every executed step k.
C8_MonotoneUnderPureRunoff ==
    ( /\ qt_bn_per_month > 0
      /\ ~SwitchSet
      /\ \A i \in 1..Len(tga_series) : tga_series[i] = start.tga_bn
      /\ currency_bn = 0 /\ other_bn = 0 )
    => \A k \in 1..(Len(reserves) - 1) : At(reserves, k) <= At(reserves, k - 1)

\* Such a run has returned after 24 steps, each of which lowered reserves.
C8_Witness ==
    /\ pc = "done"
    /\ projection_months = PROJECTION_MONTHS
    /\ qt_bn_per_month > 0
    /\ ~SwitchSet
    /\ \A i \in 1..Len(tga_series) : tga_series[i] = start.tga_bn
    /\ currency_bn = 0 /\ other_bn = 0
    /\ start.rrp_bn > 0
    /\ \A k \in 1..projection_months : At(reserves, k) < At(reserves, k - 1)

\* C9: a returned trajectory has five sequences of H+1 entries each, and
\* index 0 of reserves, auxiliaryBuffer and cashBalance is the StartingState
\* value (the cash value not being the periodic driver's).
C9_ShapeAndStart ==
    pc = "done" =>
        /\ Len(reserves) = projection_months + 1
        /\ Len(rrp) = projection_months + 1
        /\ Len(tga_series) = projection_months + 1
        /\ Len(currency_cum) = projection_months + 1
        /\ Len(other_cum) = projection_months + 1
        /\ At(reserves, 0) = start.reserves_bn
        /\ At(rrp, 0) = start.rrp_bn
        /\ At(tga_series, 0) = start.tga_bn

\* A 24-step run has returned whose starting cash differs from the driver's
\* step-0 value.
C9_Witness ==
    /\ pc = "done"
    /\ projection_months = PROJECTION_MONTHS
    /\ start.tga_bn # tga_path_bn(0, start.tga_bn)
    /\ Len(reserves) = PROJECTION_MONTHS + 1
    /\ At(tga_series, 0) = start.tga_bn

\* C10: no trajectory is returned for a horizon H < 1, nor for a regime
\* switch whose triggerStep is outside [1, H].
C10_RejectsMalformed ==
    pc = "done" =>
        /\ projection_months >= 1
        /\ (SwitchSet =>
               crisis_reversal_after_month[1] \in 1..projection_months)

\* C20: the clamp keeps no memory of a deficit: after a step k at which
\* reserves were floored to 0, reserves[k+1] = max(0, 0 - effectiveRunoffRate
\* - deltaCashBalance - currencyDrain - otherDrain) however far below zero the
\* unclamped value of step k had fallen, so that reserves can leave 0 again
\* in a single step.
C20_ClampKeepsNoMemory ==
    \A k \in 1..(Len(new_res_log) - 1) :
        new_res_log[k] < 0 =>
            LET flow == 0 - effective_qt_log[k + 1]
                        - (At(tga_series, k + 1) - At(tga_series, k))
                        - currency_bn - other_bn
            IN  /\ At(reserves, k) = 0
                /\ At(reserves, k + 1) = IF flow > 0 THEN flow ELSE 0

\* A step fell more than 100 $ billion below zero and was floored, and the
\* very next step brought reserves above 0.
C20_Witness ==
    \E k \in 1..(Len(new_res_log) - 1) :
        /\ new_res_log[k] < -100000
        /\ At(reserves, k) = 0
        /\ At(reserves, k + 1) > 0


(***************************************************************************)
(* Properties of months_until.                                             *)
(***************************************************************************)

\* C7: months_until returns the smallest index i with reserves[i] <=
\* threshold, every earlier index being strictly above the threshold, and
\* returns None exactly when no index qualifies; for [100, 90, ..., 0] it
\* returns 5 for threshold 55 and None for threshold -1.
C7_FirstCrossing ==
    mu_pc = "done" =>
        LET hits == {i \in 0..(Len(reserves_bn_list) - 1) :
                        At(reserves_bn_list, i) <= threshold_bn}
        IN  /\ (mu_ret = None) <=> (hits = {})
            /\ mu_ret # None =>
                  /\ mu_ret[1] \in hits
                  /\ \A j \in 0..(mu_ret[1] - 1) :
                        At(reserves_bn_list, j) > threshold_bn
            /\ (reserves_bn_list = Decreasing /\ threshold_bn = 55)
                  => mu_ret = Some(5)
            /\ (reserves_bn_list = Decreasing /\ threshold_bn = -1)
                  => mu_ret = None

\* The scan of [100, 90, ..., 0] for 55 has returned 5, having passed the
\* five entries above the threshold.
C7_Witness ==
    /\ mu_pc = "done"
    /\ reserves_bn_list = Decreasing
    /\ threshold_bn = 55
    /\ mu_ret = Some(5)
    /\ mu_i = 5

(***************************************************************************)
(* Properties of run_scenario relating two runs.                           *)
(***************************************************************************)
\* The dict the run in progress returns, once it is at line 162.
Returned ==
    [reserves_bn |-> reserves, rrp_bn |-> rrp, tga_bn |-> tga_series,
     currency_cum_bn |-> currency_cum, other_cum_bn |-> other_cum]

\* C24: given a trigger step but no replacement rate, run_scenario raises
\* no error and the switch never takes effect: every step uses
\* qt_bn_per_month and the returned trajectory is, at every index, that of
\* the same run with no trigger step.
C24_TriggerWithoutReplacement ==
    (crisis_reversal_after_month # None /\ qe_bn_per_month = None) =>
        /\ pc \in {"start", "loop", "done"}
        /\ pc = "loop" => Len(effective_qt_log) = m - 1
        /\ \A k \in 1..Len(effective_qt_log) :
              effective_qt_log[k] = qt_bn_per_month
        /\ pc = "done" =>
              /\ Len(effective_qt_log) = projection_months
              /\ Returned = RunScenario(qt_bn_per_month, start, currency_bn,
                                        other_bn, rrp_near_zero, None, None)

\* A 24-step run at 95 with trigger step 1 and no replacement rate has
\* returned, reserves still above 0 at the end.
C24_Witness ==
    /\ pc = "done"
    /\ crisis_reversal_after_month = Some(1)
    /\ qe_bn_per_month = None
    /\ qt_bn_per_month = QT_HAWK_BN
    /\ projection_months = PROJECTION_MONTHS
    /\ Len(reserves) = PROJECTION_MONTHS + 1
    /\ Last(reserves) > 0

\* The sum of the first k entries of a list of amounts.
RECURSIVE SumTo(_, _)
SumTo(list, k) == IF k = 0 THEN 0 ELSE SumTo(list, k - 1) + list[k]

\* The clamp of line 156 did not bind at any of the steps 1..k: each
\* new_res was appended as it was.
NeverClamped(unclamped, k) == \A j \in 1..k : unclamped[j] >= 0

\* The cash path of lines 125-128 when TGA_AMPLITUDE_BN is amplitude.
TgaSeriesWith(amplitude, start_tga, months) ==
    [i \in 1..(IF months >= 0 THEN months + 1 ELSE 1) |->
        IF i = 1 THEN start_tga ELSE TGA_MEAN_BN + SineTerm(amplitude, i - 1)]

\* The lists the loop of lines 130-156 builds for the arguments of the run
\* in progress over the cash path series.
LoopOver(series) ==
    RunLoop([qt |-> qt_bn_per_month, currency |-> currency_bn,
             other |-> other_bn, near_zero |-> rrp_near_zero,
             crisis |-> crisis_reversal_after_month, qe |-> qe_bn_per_month,
             tga |-> series],
            [reserves |-> <<start.reserves_bn>>, rrp |-> <<start.rrp_bn>>,
             unclamped |-> <<>>],
            1)

\* reserves[k] in closed form, the buffer term being buffer.
ClosedForm(k, buffer) ==
    At(reserves, 0) - SumTo(effective_qt_log, k) - buffer
    - (At(tga_series, k) - At(tga_series, 0))
    - k * (currency_bn + other_bn)

InitCrossings == InitMonths \/ InitSummary

NextCrossings == NextMonths \/ NextSummary

SpecCrossings == InitCrossings /\ [][NextCrossings]_vars

\* C22: crossing indices are ordered by threshold.  When months_until
\* returns an index for a threshold, it returns an index no greater for
\* every threshold at or above it; so in every summary record a reported
\* crossing of the 2000 level comes with a reported crossing of the 2500
\* level at the same or an earlier step.
C22_CrossingsOrdered ==
    /\ (mu_pc = "done" /\ mu_ret # None) =>
          \A hi \in Thresholds :
              hi >= threshold_bn =>
                  LET at_hi == months_until(reserves_bn_list, hi)
                  IN  at_hi # None /\ at_hi[1] <= mu_ret[1]
    /\ \A j \in 1..Len(rows) :
          /\ rows[j].m_20.kind = "num" =>
                /\ rows[j].m_25.kind = "num"
                /\ rows[j].m_25.val <= rows[j].m_20.val
          /\ \A lo, hi \in {0, THRESH_CAUTION_BN, THRESH_AMPLE_BN} :
                (lo <= hi /\ months_until(RowReserves(j), lo) # None) =>
                    /\ months_until(RowReserves(j), hi) # None
                    /\ months_until(RowReserves(j), hi)[1]
                          <= months_until(RowReserves(j), lo)[1]

\* The table of the 24-step runs from reserves 3000 is complete: scenario A
\* crosses 2500 after the start and 2000 strictly later.
C22_Witness ==
    /\ sm_pc = "done"
    /\ projection_months = PROJECTION_MONTHS
    /\ start_bn = 3000000
    /\ rows[1].m_25.kind = "num"
    /\ rows[1].m_20.kind = "num"
    /\ 0 < rows[1].m_25.val
    /\ rows[1].m_25.val < rows[1].m_20.val

(***************************************************************************)
(* run_scenario called on its own or by build_all_scenarios: the two state *)
(* machines side by side, one of them started.                             *)
(***************************************************************************)
InitRates == Init \/ InitBuild

NextRates == Next \/ NextBuild

SpecRates == InitRates /\ [][NextRates]_vars

\* list1[i] <= list2[i] at every index.
Below(list1, list2) ==
    /\ Len(list1) = Len(list2)
    /\ \A i \in 1..Len(list1) : list1[i] <= list2[i]

\* C21: reserves are monotone in the runoff rate.  For two runs that differ
\* in their rates only (same StartingState, cash path, drains and buffer
\* policy), the effective rate of the first at or above that of the
\* second at every step, reserves of the first are at or below reserves of
\* the second at every index 0..H, clamping included; hence in the result of
\* build_all_scenarios A <= B <= C and A <= D at every index.
C21_MonotoneInRate ==
    /\ pc = "done" =>
          \A qt2 \in Rates, crisis2 \in Triggers, qe2 \in Replacements :
              (\A k \in 1..projection_months :
                    EffectiveQt(k, qt2, crisis2, qe2) <= effective_qt_log[k])
              => Below(reserves,
                       RunScenario(qt2, start, currency_bn, other_bn,
                                   rrp_near_zero, crisis2, qe2).reserves_bn)
    /\ bs_pc = "done" =>
          /\ Below(Traj("A").reserves_bn, Traj("B").reserves_bn)
          /\ Below(Traj("B").reserves_bn, Traj("C").reserves_bn)
          /\ Below(Traj("A").reserves_bn, Traj("D").reserves_bn)

\* build_all_scenarios has returned the 24-step runs from reserves 200: A
\* is floored at 0 from step 1 while C is still above 0 at step 3, and D
\* leaves 0 again after the switch.
C21_Witness ==
    /\ bs_pc = "done"
    /\ projection_months = PROJECTION_MONTHS
    /\ start.reserves_bn = 200000
    /\ At(Traj("A").reserves_bn, 1) = 0
    /\ At(Traj("A").reserves_bn, 24) = 0
    /\ At(Traj("C").reserves_bn, 3) > At(Traj("B").reserves_bn, 3)
    /\ At(Traj("D").reserves_bn, 24) > 0

====
